---- MODULE Spec2Model ----
(***************************************************************************)
(* Model of src/scripts/build.tsx: the static-site build pipeline          *)
(* (prepare, writeGlobal || writePages, render, write, cleanup) running    *)
(* against a filesystem.  Paths and file texts are sequences of one-       *)
(* character strings so that slice/indexOf/extname/dirname are computed as *)
(* the code computes them.  Filesystem calls follow the Node fs semantics  *)
(* the script was written for (rmdir {recursive:true} behaves as rm -rf).  *)
(***************************************************************************)
EXTENDS Integers, Sequences, FiniteSets, TLC

(* ------------------------------ bounds --------------------------------- *)
MaxPages == 2
MaxPublic == 2

(* --------------------------- string helpers ---------------------------- *)
SLASH == "/"
DOT == "."

Min(a, b) == IF a < b THEN a ELSE b
Max(a, b) == IF a > b THEN a ELSE b

\* String.prototype.startsWith / endsWith
StartsWith(s, pre) ==
  /\ Len(s) >= Len(pre)
  /\ SubSeq(s, 1, Len(pre)) = pre

EndsWith(s, suf) ==
  /\ Len(s) >= Len(suf)
  /\ SubSeq(s, Len(s) - Len(suf) + 1, Len(s)) = suf

\* String.prototype.indexOf: 0-based index of the first occurrence, or -1
IndexOf(s, pat) ==
  LET hits == {i \in 0..(Len(s) - Len(pat)) : SubSeq(s, i + 1, i + Len(pat)) = pat}
  IN IF hits = {} THEN -1 ELSE CHOOSE i \in hits : \A j \in hits : i <= j

\* String.prototype.slice(start, end) with 0-based indices; a negative end
\* counts from the end of the string.
Slice(s, start, end) ==
  LET e == IF end < 0 THEN Max(Len(s) + end, 0) ELSE Min(end, Len(s))
      b == IF start < 0 THEN Max(Len(s) + start, 0) ELSE Min(start, Len(s))
  IN SubSeq(s, b + 1, e)

\* String.prototype.slice(start)
SliceFrom(s, start) == Slice(s, start, Len(s))

\* position (1-based) of the last occurrence of character c in s, 0 if none
LastPos(s, c) ==
  LET hits == {i \in 1..Len(s) : s[i] = c}
  IN IF hits = {} THEN 0 ELSE CHOOSE i \in hits : \A j \in hits : i >= j

\* path.basename
BaseName(s) == SubSeq(s, LastPos(s, SLASH) + 1, Len(s))

\* path.extname: from the last "." of the basename to the end; "" when the
\* basename has no "." or only a leading one.
ExtName(s) ==
  LET b == BaseName(s)
      d == LastPos(b, DOT)
  IN IF d <= 1 THEN <<>> ELSE SubSeq(b, d, Len(b))

\* path.dirname: "/index" -> "/", "/b/a" -> "/b", "a" -> "."
DirName(s) ==
  LET k == LastPos(s, SLASH)
  IN IF k = 0 THEN <<DOT>>
     ELSE IF k = 1 THEN <<SLASH>>
     ELSE SubSeq(s, 1, k - 1)

\* String.prototype.split(sep): the segments between "/" characters
RECURSIVE Split(_)
Split(s) ==
  LET k == IndexOf(s, <<SLASH>>)
  IN IF k = -1 THEN <<s>>
     ELSE <<SubSeq(s, 1, k)>> \o Split(SubSeq(s, k + 2, Len(s)))

\* Array.prototype.join(sep)
RECURSIVE JoinSegs(_)
JoinSegs(segs) ==
  IF segs = <<>> THEN <<>>
  ELSE IF Len(segs) = 1 THEN segs[1]
  ELSE segs[1] \o <<SLASH>> \o JoinSegs(Tail(segs))

\* path.normalize relative to the working directory, as path.join and
\* path.resolve apply it: "." and empty segments are dropped.
RECURSIVE DropDots(_)
DropDots(segs) ==
  IF segs = <<>> THEN <<>>
  ELSE IF segs[1] = <<>> \/ segs[1] = <<DOT>> THEN DropDots(Tail(segs))
  ELSE <<segs[1]>> \o DropDots(Tail(segs))

Resolve(s) == JoinSegs(DropDots(Split(s)))

\* path.join(a, b)
join(a, b) == Resolve(a \o <<SLASH>> \o b)

\* String.prototype.trim: strip leading and trailing white space
IsSpace(c) == c \in {" ", "\n"}

RECURSIVE TrimLeft(_)
TrimLeft(s) ==
  IF s # <<>> /\ IsSpace(s[1]) THEN TrimLeft(Tail(s)) ELSE s

RECURSIVE TrimRight(_)
TrimRight(s) ==
  IF s # <<>> /\ IsSpace(s[Len(s)]) THEN TrimRight(SubSeq(s, 1, Len(s) - 1)) ELSE s

Trim(s) == TrimRight(TrimLeft(s))

(* ------------------------------ path names ----------------------------- *)
DIST == <<"d","i","s","t">>
TMP == <<".","t","m","p">>
STAGING == <<".","t","m","p","/","m","i","c","r","o","s","i","t","e">>
\* line 68: const OUTPUT_DIR = "./.tmp/microsite"
OUTPUT_DIR == <<".","/">> \o STAGING
SRC == <<"s","r","c">>
SRC_PUBLIC == <<"s","r","c","/","p","u","b","l","i","c">>
SRC_PAGES == <<"s","r","c","/","p","a","g","e","s">>
PAGES_SLASH == <<"p","a","g","e","s","/">>
STAGING_PAGES == STAGING \o <<"/">> \o <<"p","a","g","e","s">>
EXT_TSX == <<".","t","s","x">>
EXT_JS == <<".","j","s">>
EXT_CSS == <<".","c","s","s">>
EXT_HTML == <<".","h","t","m","l">>
GLOBAL_JS == STAGING \o <<"/","g","l","o","b","a","l",".","j","s">>
GLOBAL_CSS == STAGING \o <<"/","g","l","o","b","a","l",".","c","s","s">>
GLOBAL_LEGACY_JS == STAGING \o <<"/","g","l","o","b","a","l",".","l","e","g","a","c","y",".","j","s">>
DIST_INDEX_JS == <<"d","i","s","t","/","i","n","d","e","x",".","j","s">>
DIST_INDEX_LEGACY_JS == <<"d","i","s","t","/","i","n","d","e","x",".","l","e","g","a","c","y",".","j","s">>

(* ------------------------------ file contents --------------------------- *)
\* A file holds a text; a rendered document also records what the Document
\* shell was given (page name, styles in order, hasScripts).
File(text) == [text |-> text, page |-> <<>>, styles |-> <<>>, scripts |-> FALSE]

DOCTYPE == <<"<","!","D","O","C","T","Y","P","E"," ","h","t","m","l",">","\n">>

\* Array.prototype.filter((v) => v) over [globalStyle, style]: null and the
\* empty string are falsy.  A missing style is the empty option <<>>.
Truthy(opts) == SelectSeq(opts, LAMBDA o : o # <<>> /\ o[1] # <<>>)

StyleList(globalStyle, style) ==
  LET kept == Truthy(<< <<globalStyle>>, style >>)
  IN [i \in 1..Len(kept) |-> kept[i][1]]

\* lines 254-269: "<!DOCTYPE html>\n" + render(<Document ...><Page/></Document>)
RenderDocument(name, hasScripts, globalStyle, style) ==
  [text |-> DOCTYPE, page |-> name, styles |-> StyleList(globalStyle, style),
   scripts |-> hasScripts]

(* ------------------------------ source tree ----------------------------- *)
PageA == SRC_PAGES \o <<"/","a",".","t","s","x">>
PageBA == SRC_PAGES \o <<"/","b","/","a",".","t","s","x">>
PageC == SRC_PAGES \o <<"/","c",".","t","s","x">>
PageCandidates == {PageA, PageBA, PageC}
\* pages that import a stylesheet of their own
PagesWithStyle == {PageA}
PageStyleText == <<"p">>

PublicIndexJs == SRC_PUBLIC \o <<"/","i","n","d","e","x",".","j","s">>
PublicAHtml == SRC_PUBLIC \o <<"/","a",".","h","t","m","l">>
PublicNested == SRC_PUBLIC \o <<"/","s","/","f">>
PublicCandidates == {PublicIndexJs, PublicAHtml, PublicNested}

\* other entries that may sit in ./.tmp next to the staging directory
TmpOtherFile == TMP \o <<"/","o">>
TmpOtherDir == TMP \o <<"/","e">>
\* a file left in dist by an earlier run
StaleHtml == DIST \o <<"/","z",".","h","t","m","l">>

ScriptTexts == { <<"\n">>, <<"j">> }
\* the global stylesheet the compiler extracts: none, empty, or some rules
StyleOptions == { <<>>, << <<>> >>, << <<"g">> >> }

\* every proper ancestor directory of a normalized relative path
Ancestors(p) == { SubSeq(p, 1, i - 1) : i \in {j \in 2..Len(p) : p[j] = SLASH} }

Under(dir, p) == StartsWith(p, dir \o <<SLASH>>)

(* -------------------------------- state --------------------------------- *)
VARIABLES
  files,            \* filesystem: path -> content of every regular file
  dirs,             \* filesystem: the directories
  globalScript,     \* text the compiler emits for src/global.ts
  globalCss,        \* stylesheet the compiler extracts from src/global.ts (option)
  pc,               \* position of build()
  status,           \* promise of build(): running / resolved / rejected / returned
  err,              \* what rejected build()
  gstate,           \* writeGlobal(): position / settled state of its promise
  pstate,           \* writePages(): position / settled state of its promise
  pageInputs,       \* writePages: const pages (glob result)
  tasks,            \* filesystem / bundle.write operations in flight
  globalStyle,      \* build: const globalStyle
  hasGlobalScript,  \* build: const hasGlobalScript
  styles,           \* build: const styles  ({__name, content})
  pages,            \* build: const pages   (__name of every imported module)
  output,           \* build: const output  ({name, content})
  finished          \* history: operations of the run that have completed

vars == <<files, dirs, globalScript, globalCss, pc, status, err, gstate, pstate,
          pageInputs, tasks, globalStyle, hasGlobalScript, styles, pages, output,
          finished>>

Task(op, arg) == [op |-> op, arg |-> arg]

InitialFiles(pub, pgs, sib, stale) ==
  LET paths == pub \cup pgs \cup (sib \cap {TmpOtherFile}) \cup stale
  IN [p \in paths |-> File(p)]

InitialDirs(pub, pubIsDir, pgs, sib, stale) ==
  {SRC} \cup (IF pubIsDir THEN {SRC_PUBLIC} ELSE {})
  \cup UNION {Ancestors(p) : p \in pub \cup pgs \cup sib \cup stale}
  \cup (sib \cap {TmpOtherDir})

\* The state before build() is called: some source tree and either a fresh
\* working directory or one with the output of an earlier run in dist and
\* another entry (a file or an empty directory) in ./.tmp.
Init ==
  /\ \E pubKind \in {"absent", "file", "dir"} :
     \E pub \in SUBSET PublicCandidates :
     \E pgs \in SUBSET PageCandidates :
     \E sib \in {{}, {TmpOtherFile}, {TmpOtherDir}} :
     \E stale \in {IF sib = {} THEN {} ELSE {StaleHtml}} :
       /\ Cardinality(pub) <= MaxPublic
       /\ Cardinality(pgs) <= MaxPages
       /\ pubKind # "dir" => pub = {}
       /\ files = InitialFiles(IF pubKind = "file" THEN {SRC_PUBLIC} ELSE pub,
                               pgs, sib, stale)
       /\ dirs = InitialDirs(pub, pubKind = "dir", pgs, sib, stale)
  /\ globalScript \in ScriptTexts
  /\ globalCss \in StyleOptions
  /\ pc = "start"
  /\ status = "running"
  /\ err = "none"
  /\ gstate = "idle"
  /\ pstate = "idle"
  /\ pageInputs = {}
  /\ tasks = {}
  /\ globalStyle = <<>>
  /\ hasGlobalScript = FALSE
  /\ styles = {}
  /\ pages = {}
  /\ output = {}
  /\ finished = {}

(* --------------------------- filesystem calls --------------------------- *)
Exists(p) == p \in dirs \/ p \in DOMAIN files

\* the directory a path lives in; the working directory for a bare name
HasParentDir(p) == LastPos(p, SLASH) = 0 \/ SubSeq(p, 1, LastPos(p, SLASH) - 1) \in dirs

\* fsp.rmdir(p, { recursive: true }): removes the whole tree, no error when
\* the path is absent
RmTreeFiles(fs, p) == [q \in {r \in DOMAIN fs : r # p /\ ~Under(p, r)} |-> fs[q]]
RmTreeDirs(ds, p) == {d \in ds : d # p /\ ~Under(p, d)}

\* fsp.mkdir(p, { recursive: true })
MkdirP(ds, p) == ds \cup {p} \cup Ancestors(p)

\* fsp.writeFile / the destination side of fsp.copyFile
PutFile(fs, p, c) == [q \in DOMAIN fs \cup {p} |-> IF q = p THEN c ELSE fs[q]]

\* readDir (lines 165-174): the regular files below dir, at any depth, each
\* as join(dir, ...); directories themselves are not listed.
readDir(dir) == {f \in DOMAIN files : Under(Resolve(dir), f)}

(* ------------------------ promise bookkeeping --------------------------- *)
Batch(op) == {t \in tasks : t.op = op}

\* build() rejects with e unless it has already settled
Reject(e) ==
  /\ status' = (IF status = "running" THEN "rejected" ELSE status)
  /\ err' = (IF status = "running" THEN e ELSE err)

(* ------------------------------- prepare -------------------------------- *)
\* line 177: const paths = ["./dist", "./.tmp/microsite"]
PreparePaths == { <<".","/">> \o DIST, OUTPUT_DIR }

\* lines 202-203, 177-178: build() calls prepare(), which issues both rmdir
Start ==
  /\ pc = "start"
  /\ pc' = "prepare_rmdir"
  /\ tasks' = {Task("rmdir", p) : p \in PreparePaths}
  /\ UNCHANGED <<files, dirs, globalScript, globalCss, status, err, gstate, pstate,
                 pageInputs, globalStyle, hasGlobalScript, styles, pages, output,
                 finished>>

\* line 178: one rmdir(p, { recursive: true }) completes; after the last one
\* line 179 issues both mkdir
PrepareRmdir(t) ==
  /\ t \in Batch("rmdir") /\ pc = "prepare_rmdir"
  /\ files' = RmTreeFiles(files, Resolve(t.arg))
  /\ dirs' = RmTreeDirs(dirs, Resolve(t.arg))
  /\ finished' = finished \cup {t}
  /\ IF tasks = {t}
       THEN /\ pc' = "prepare_mkdir"
            /\ tasks' = {Task("mkdir", p) : p \in PreparePaths}
       ELSE /\ pc' = pc
            /\ tasks' = tasks \ {t}
  /\ UNCHANGED <<globalScript, globalCss, status, err, gstate, pstate, pageInputs,
                 globalStyle, hasGlobalScript, styles, pages, output>>

\* line 179: one mkdir(p, { recursive: true }) completes
PrepareMkdir(t) ==
  /\ t \in Batch("mkdir") /\ pc = "prepare_mkdir"
  /\ dirs' = MkdirP(dirs, Resolve(t.arg))
  /\ finished' = finished \cup {t}
  /\ tasks' = tasks \ {t}
  /\ pc' = (IF tasks = {t} THEN "prepare_stat" ELSE pc)
  /\ UNCHANGED <<files, globalScript, globalCss, status, err, gstate, pstate,
                 pageInputs, globalStyle, hasGlobalScript, styles, pages, output>>

\* line 204: writeGlobal() and writePages() are both called; each runs up to
\* its first await (rollup of the global entry, glob of the pages)
StartCompile ==
  /\ pc' = "compile"
  /\ gstate' = "rollup_global"
  /\ pstate' = "glob"

\* line 181: stat("./src/public") rejects when the path is absent; when it is
\* not a directory prepare() is finished
PrepareStat ==
  /\ pc = "prepare_stat" /\ status = "running"
  /\ IF ~Exists(SRC_PUBLIC)
       THEN /\ Reject("ENOENT stat src/public")
            /\ UNCHANGED <<pc, gstate, pstate>>
       ELSE IF SRC_PUBLIC \in dirs
         THEN /\ pc' = "prepare_readdir"
              /\ UNCHANGED <<status, err, gstate, pstate>>
         ELSE /\ StartCompile
              /\ UNCHANGED <<status, err>>
  /\ UNCHANGED <<files, dirs, globalScript, globalCss, pageInputs, tasks,
                 globalStyle, hasGlobalScript, styles, pages, output, finished>>

\* lines 185-188: the destination of one static file
PublicTarget(file) ==
  Resolve(<<".","/">> \o DIST \o <<SLASH>> \o SliceFrom(file, Len(SRC_PUBLIC \o <<SLASH>>)))

\* lines 182-190: list the static files and issue one copyFile per file
PrepareReadDir ==
  /\ pc = "prepare_readdir" /\ status = "running"
  /\ LET found == readDir(<<".","/">> \o SRC_PUBLIC)
     IN IF found = {}
          THEN /\ StartCompile
               /\ tasks' = tasks
          ELSE /\ pc' = "prepare_copy"
               /\ tasks' = {Task("copy", f) : f \in found}
               /\ UNCHANGED <<gstate, pstate>>
  /\ UNCHANGED <<files, dirs, globalScript, globalCss, status, err, pageInputs,
                 globalStyle, hasGlobalScript, styles, pages, output, finished>>

\* lines 185-188: one copyFile settles.  It rejects (ENOENT) when the
\* destination's directory does not exist; Promise.all then rejects prepare()
\* at once while the other copies still run.
PrepareCopy(t) ==
  /\ t \in Batch("copy")
  /\ tasks' = tasks \ {t}
  /\ IF t.arg \in DOMAIN files /\ HasParentDir(PublicTarget(t.arg))
       THEN /\ files' = PutFile(files, PublicTarget(t.arg), files[t.arg])
            /\ finished' = finished \cup {t}
            /\ UNCHANGED <<status, err>>
            /\ IF tasks = {t} /\ status = "running"
                 THEN StartCompile
                 ELSE UNCHANGED <<pc, gstate, pstate>>
       ELSE /\ Reject("ENOENT copyFile")
            /\ UNCHANGED <<files, finished, pc, gstate, pstate>>
  /\ UNCHANGED <<dirs, globalScript, globalCss, pageInputs, globalStyle,
                 hasGlobalScript, styles, pages, output>>

(* ------------------------------ writeGlobal ----------------------------- *)
GLOBAL_JS_NAME == <<"g","l","o","b","a","l",".","j","s">>
GLOBAL_LEGACY_JS_NAME == <<"g","l","o","b","a","l",".","l","e","g","a","c","y",".","j","s">>

\* lines 113-118: dir: OUTPUT_DIR with the entry chunk named after the input
GlobalEsmFile == join(OUTPUT_DIR, GLOBAL_JS_NAME)
\* line 122: file: join(OUTPUT_DIR, "global.legacy.js")
GlobalLegacyFile == join(OUTPUT_DIR, GLOBAL_LEGACY_JS_NAME)

\* the stylesheet the postcss plugin (extract: true) emits next to an entry
\* chunk: same name, extension .css
StyleFileOf(js) == Slice(js, 0, 0 - Len(ExtName(js))) \o EXT_CSS

\* lines 92-100: rollup() of the modern bundle settles; it is awaited outside
\* the try block, so a failure rejects writeGlobal() and with it the
\* Promise.all of line 204
GlobalRollup ==
  /\ gstate = "rollup_global"
  /\ \E ok \in BOOLEAN :
       IF ok THEN /\ gstate' = "rollup_legacy"
                  /\ UNCHANGED <<status, err>>
             ELSE /\ gstate' = "rejected"
                  /\ Reject("rollup global")
  /\ UNCHANGED <<files, dirs, globalScript, globalCss, pc, pstate, pageInputs,
                 tasks, globalStyle, hasGlobalScript, styles, pages, output,
                 finished>>

\* lines 101-124: rollup() of the legacy bundle settles (also outside the
\* try); on success both bundle.write calls are issued and their Promise.all
\* is returned without await
GlobalRollupLegacy ==
  /\ gstate = "rollup_legacy"
  /\ \E ok \in BOOLEAN :
       IF ok THEN /\ gstate' = "writing"
                  /\ tasks' = tasks \cup {Task("gwrite", GlobalEsmFile),
                                          Task("gwrite", GlobalLegacyFile)}
                  /\ UNCHANGED <<status, err>>
             ELSE /\ gstate' = "rejected"
                  /\ tasks' = tasks
                  /\ Reject("rollup legacy")
  /\ UNCHANGED <<files, dirs, globalScript, globalCss, pc, pstate, pageInputs,
                 globalStyle, hasGlobalScript, styles, pages, output, finished>>

\* the files one bundle.write of writeGlobal produces
GlobalWriteFiles(js) ==
  [p \in {js} \cup (IF globalCss = <<>> THEN {} ELSE {StyleFileOf(js)}) |->
     IF p = js THEN File(globalScript) ELSE File(globalCss[1])]

\* lines 113-123: one bundle.write settles.  The returned Promise.all is not
\* awaited inside the try, so a rejected write rejects writeGlobal().
GlobalWrite(t) ==
  /\ t \in Batch("gwrite")
  /\ tasks' = tasks \ {t}
  /\ \E ok \in BOOLEAN :
       IF ok
         THEN /\ LET out == GlobalWriteFiles(t.arg)
                 IN files' = [p \in DOMAIN files \cup DOMAIN out |->
                                IF p \in DOMAIN out THEN out[p] ELSE files[p]]
              /\ dirs' = MkdirP(dirs, Resolve(OUTPUT_DIR))
              /\ finished' = finished \cup {t}
              /\ gstate' = (IF Batch("gwrite") = {t} /\ gstate = "writing"
                              THEN "resolved" ELSE gstate)
              /\ UNCHANGED <<status, err>>
         ELSE /\ gstate' = (IF gstate = "writing" THEN "rejected" ELSE gstate)
              /\ Reject("write global")
              /\ UNCHANGED <<files, dirs, finished>>
  /\ UNCHANGED <<globalScript, globalCss, pc, pstate, pageInputs, globalStyle,
                 hasGlobalScript, styles, pages, output>>

(* ------------------------------ writePages ------------------------------ *)
\* line 132: glob(["src/pages/**/*.tsx"])
Glob == {f \in DOMAIN files : Under(SRC_PAGES, f) /\ EndsWith(f, EXT_TSX)}

\* line 152: String.prototype.replace(/^src/, OUTPUT_DIR)
ReplaceSrc(s) == IF StartsWith(s, SRC) THEN OUTPUT_DIR \o SliceFrom(s, Len(SRC)) ELSE s

PageOutDirRoot(input) == OUTPUT_DIR \o <<SLASH>> \o <<"p","a","g","e","s">>

\* lines 151-155: pages[i].replace(/^src/, OUTPUT_DIR).split(sep).slice(0, -1).join(sep)
PageOutDir(input) ==
  LET segs == Split(ReplaceSrc(input))
  IN JoinSegs(SubSeq(segs, 1, Len(segs) - 1))

\* the entry chunk bundle.write puts into dir: the input's base name with
\* the extension .js
PageEntryFile(input) ==
  LET base == BaseName(input)
  IN join(PageOutDir(input), Slice(base, 0, 0 - Len(ExtName(base))) \o EXT_JS)

PageWriteFiles(input) ==
  LET js == PageEntryFile(input)
  IN [p \in {js} \cup (IF input \in PagesWithStyle THEN {StyleFileOf(js)} ELSE {}) |->
        IF p = js THEN File(input) ELSE File(PageStyleText)]

\* line 132: the glob settles
PagesGlob ==
  /\ pstate = "glob"
  /\ pageInputs' = Glob
  /\ pstate' = "rollup"
  /\ UNCHANGED <<files, dirs, globalScript, globalCss, pc, status, err, gstate,
                 tasks, globalStyle, hasGlobalScript, styles, pages, output,
                 finished>>

\* lines 133-162: the Promise.all over rollup() of every page settles.  It is
\* awaited inside the try: when a page fails to compile the catch logs and
\* writePages() resolves with nothing written.  Otherwise one bundle.write
\* per page is issued and their Promise.all is returned without await.
PagesRollup ==
  /\ pstate = "rollup"
  /\ \E ok \in BOOLEAN :
       /\ ~ok => pageInputs # {}
       /\ IF ok /\ pageInputs # {}
            THEN /\ pstate' = "writing"
                 /\ tasks' = tasks \cup {Task("pwrite", i) : i \in pageInputs}
            ELSE /\ pstate' = "resolved"
                 /\ tasks' = tasks
  /\ UNCHANGED <<files, dirs, globalScript, globalCss, pc, status, err, gstate,
                 pageInputs, globalStyle, hasGlobalScript, styles, pages, output,
                 finished>>

\* lines 148-157: one page's bundle.write settles; a rejected write rejects
\* the returned Promise.all and so writePages()
PageWrite(t) ==
  /\ t \in Batch("pwrite")
  /\ tasks' = tasks \ {t}
  /\ \E ok \in BOOLEAN :
       IF ok
         THEN /\ LET out == PageWriteFiles(t.arg)
                 IN files' = [p \in DOMAIN files \cup DOMAIN out |->
                                IF p \in DOMAIN out THEN out[p] ELSE files[p]]
              /\ dirs' = MkdirP(dirs, Resolve(PageOutDir(t.arg)))
              /\ finished' = finished \cup {t}
              /\ pstate' = (IF Batch("pwrite") = {t} /\ pstate = "writing"
                              THEN "resolved" ELSE pstate)
              /\ UNCHANGED <<status, err>>
         ELSE /\ pstate' = (IF pstate = "writing" THEN "rejected" ELSE pstate)
              /\ Reject("write page")
              /\ UNCHANGED <<files, dirs, finished>>
  /\ UNCHANGED <<globalScript, globalCss, pc, gstate, pageInputs, globalStyle,
                 hasGlobalScript, styles, pages, output>>

(* ------------------------- build: render and write ---------------------- *)
CleanupPathsPages == {<<".","/">> \o STAGING_PAGES}

\* line 195: const paths = ["./.tmp/microsite"]
CleanupPaths == {OUTPUT_DIR}

\* line 204: Promise.all([writeGlobal(), writePages()]) is fulfilled once
\* both promises have resolved
CompiledRace == gstate = "resolved" \/ pstate = "resolved"

Compiled == gstate = "resolved" /\ pstate = "resolved"

\* line 204: the await resumes; line 206 then issues the read of global.css
AwaitCompiled ==
  /\ pc = "compile" /\ status = "running"
  /\ Compiled
  /\ pc' = "read_style"
  /\ UNCHANGED <<files, dirs, globalScript, globalCss, status, err, gstate, pstate,
                 pageInputs, tasks, globalStyle, hasGlobalScript, styles, pages,
                 output, finished>>

\* lines 206-208: readFile("./.tmp/microsite/global.css")
ReadGlobalStyle ==
  /\ pc = "read_style" /\ status = "running"
  /\ IF GLOBAL_CSS \in DOMAIN files
       THEN /\ globalStyle' = files[GLOBAL_CSS].text
            /\ pc' = "read_script"
            /\ UNCHANGED <<status, err>>
       ELSE /\ Reject("ENOENT readFile global.css")
            /\ UNCHANGED <<globalStyle, pc>>
  /\ UNCHANGED <<files, dirs, globalScript, globalCss, gstate, pstate, pageInputs,
                 tasks, hasGlobalScript, styles, pages, output, finished>>

HasScriptNoTrim(text) == text # <<>>

\* line 210: !!v.toString().trim()
HasScript(text) == Trim(text) # <<>>

\* lines 209-221: readFile("./.tmp/microsite/global.js") gives
\* hasGlobalScript; when set, both copyFile calls are issued
ReadGlobalScript ==
  /\ pc = "read_script" /\ status = "running"
  /\ IF GLOBAL_JS \in DOMAIN files
       THEN LET has == HasScript(files[GLOBAL_JS].text)
            IN /\ hasGlobalScript' = has
               /\ pc' = (IF has THEN "copy_global" ELSE "read_pages")
               /\ tasks' = (IF has THEN {Task("gcopy", GLOBAL_JS),
                                         Task("gcopy", GLOBAL_LEGACY_JS)}
                                   ELSE tasks)
               /\ UNCHANGED <<status, err>>
       ELSE /\ Reject("ENOENT readFile global.js")
            /\ UNCHANGED <<hasGlobalScript, pc, tasks>>
  /\ UNCHANGED <<files, dirs, globalScript, globalCss, gstate, pstate, pageInputs,
                 globalStyle, styles, pages, output, finished>>

\* lines 215-219: where each global script is copied to
GlobalCopyTarget(from) ==
  IF from = GLOBAL_JS THEN DIST_INDEX_JS ELSE DIST_INDEX_LEGACY_JS

\* lines 214-220: one copyFile of a global script settles
CopyGlobal(t) ==
  /\ t \in Batch("gcopy")
  /\ tasks' = tasks \ {t}
  /\ IF t.arg \in DOMAIN files /\ HasParentDir(GlobalCopyTarget(t.arg))
       THEN /\ files' = PutFile(files, GlobalCopyTarget(t.arg), files[t.arg])
            /\ finished' = finished \cup {t}
            /\ pc' = (IF tasks = {t} /\ status = "running" THEN "read_pages" ELSE pc)
            /\ UNCHANGED <<status, err>>
       ELSE /\ Reject("ENOENT copyFile global")
            /\ UNCHANGED <<files, finished, pc>>
  /\ UNCHANGED <<dirs, globalScript, globalCss, gstate, pstate, pageInputs,
                 globalStyle, hasGlobalScript, styles, pages, output>>

getNameBase(f) ==
  LET b == BaseName(f)
  IN <<SLASH>> \o Slice(b, 0, Len(ExtName(b)) * (-1))

\* lines 224-225: getName
getName(f) ==
  Slice(f, IndexOf(f, PAGES_SLASH) + Len(PAGES_SLASH) - 1, Len(ExtName(f)) * (-1))

\* lines 223-245: readDir of the staged pages (rejects when the directory is
\* absent), then every .css is read and every .js imported
ReadPages ==
  /\ pc = "read_pages" /\ status = "running"
  /\ IF STAGING_PAGES \in dirs
       THEN LET found == readDir(<<".","/">> \o STAGING_PAGES)
                js == {f \in found : EndsWith(f, EXT_JS)}
            IN /\ styles' = {[name |-> getName(f), content |-> files[f].text] :
                               f \in {g \in found : EndsWith(g, EXT_CSS)}}
               /\ pages' = {[module |-> f, name |-> getName(f)] : f \in js}
               /\ IF js = {}
                    THEN /\ pc' = "cleanup_rmdir"
                         /\ tasks' = {Task("rmdir_staging", p) : p \in CleanupPaths}
                    ELSE /\ pc' = "render"
                         /\ tasks' = tasks
               /\ UNCHANGED <<status, err>>
       ELSE /\ Reject("ENOENT readdir staged pages")
            /\ UNCHANGED <<styles, pages, pc, tasks>>
  /\ UNCHANGED <<files, dirs, globalScript, globalCss, gstate, pstate, pageInputs,
                 globalStyle, hasGlobalScript, output, finished>>

\* lines 250-251: styles.find((style) => style.__name === __name), as an option
FindStyle(name) ==
  LET hits == {st \in styles : st.name = name}
  IN IF hits = {} THEN <<>> ELSE << (CHOOSE st \in hits : TRUE).content >>

Rendered == {o.module : o \in output}

WritesEager(out) == {Task("html_mkdir", o.module) : o \in out \ output}

\* lines 248, 275-279: only when the loop has gone through every page is one
\* mkdir (then writeFile) issued per entry of output
WritesAfter(out) ==
  IF {o.module : o \in out} = {q.module : q \in pages}
    THEN {Task("html_mkdir", o.module) : o \in out}
    ELSE {}

\* lines 248-283: one iteration of the render loop (the directory order of
\* the staged pages is not fixed, so any page not yet rendered may be next).
\* render() may throw: the catch logs and build() returns.  After the last
\* page the loop ends and line 277 issues one mkdir per output.
Render(pg) ==
  /\ pc = "render" /\ status = "running"
  /\ pg \in pages /\ pg.module \notin Rendered
  /\ \E ok \in BOOLEAN :
       IF ok
         THEN LET doc == [module |-> pg.module, name |-> pg.name,
                          content |-> RenderDocument(pg.name, hasGlobalScript,
                                                     globalStyle, FindStyle(pg.name))]
                  out == output \cup {doc}
              IN /\ output' = out
                 /\ finished' = finished \cup {Task("render", pg.module)}
                 /\ tasks' = tasks \cup WritesAfter(out)
                 /\ pc' = (IF {o.module : o \in out} = {q.module : q \in pages}
                             THEN "write" ELSE pc)
                 /\ UNCHANGED <<status, err>>
         ELSE /\ status' = "returned"
              /\ err' = "render"
              /\ UNCHANGED <<output, finished, pc, tasks>>
  /\ UNCHANGED <<files, dirs, globalScript, globalCss, gstate, pstate, pageInputs,
                 globalStyle, hasGlobalScript, styles, pages>>

OutputOf(module) == CHOOSE o \in output : o.module = module

\* line 279: resolve(`./dist/${dirname(name)}`)
HtmlDir(name) == Resolve(<<".","/">> \o DIST \o <<SLASH>> \o DirName(name))

\* line 280: resolve(`./dist/${name}.html`)
HtmlFile(name) == Resolve(<<".","/">> \o DIST \o <<SLASH>> \o name \o EXT_HTML)

\* line 279: the mkdir of one output settles; its .then issues the writeFile
HtmlMkdir(t) ==
  /\ t \in Batch("html_mkdir")
  /\ dirs' = MkdirP(dirs, HtmlDir(OutputOf(t.arg).name))
  /\ tasks' = (tasks \ {t}) \cup {Task("html_write", t.arg)}
  /\ UNCHANGED <<files, globalScript, globalCss, pc, status, err, gstate, pstate,
                 pageInputs, globalStyle, hasGlobalScript, styles, pages, output,
                 finished>>

\* lines 280-284: the writeFile of one output settles; after the last one
\* cleanup() is called and issues the rmdir of the staging directory
HtmlWrite(t) ==
  /\ t \in Batch("html_write")
  /\ LET o == OutputOf(t.arg)
     IN IF HasParentDir(HtmlFile(o.name))
          THEN /\ files' = PutFile(files, HtmlFile(o.name), o.content)
               /\ finished' = finished \cup {t}
               /\ IF tasks = {t} /\ status = "running"
                    THEN /\ pc' = "cleanup_rmdir"
                         /\ tasks' = {Task("rmdir_staging", p) : p \in CleanupPaths}
                    ELSE /\ pc' = pc
                         /\ tasks' = tasks \ {t}
               /\ UNCHANGED <<status, err>>
          ELSE /\ Reject("ENOENT writeFile")
               /\ tasks' = tasks \ {t}
               /\ UNCHANGED <<files, finished, pc>>
  /\ UNCHANGED <<dirs, globalScript, globalCss, gstate, pstate, pageInputs,
                 globalStyle, hasGlobalScript, styles, pages, output>>

(* ------------------------------- cleanup -------------------------------- *)
\* lines 195-197: rmdir("./.tmp/microsite", { recursive: true }) settles and
\* readDir("./.tmp") is called
CleanupRmdir(t) ==
  /\ t \in Batch("rmdir_staging") /\ pc = "cleanup_rmdir"
  /\ files' = RmTreeFiles(files, Resolve(t.arg))
  /\ dirs' = RmTreeDirs(dirs, Resolve(t.arg))
  /\ tasks' = tasks \ {t}
  /\ finished' = finished \cup {t}
  /\ pc' = (IF tasks = {t} THEN "cleanup_readdir" ELSE pc)
  /\ UNCHANGED <<globalScript, globalCss, status, err, gstate, pstate, pageInputs,
                 globalStyle, hasGlobalScript, styles, pages, output>>

\* line 197: (await readDir("./.tmp")).length === 0 decides whether rmdir
\* of ./.tmp is called; otherwise cleanup() and build() are finished
CleanupReadDir ==
  /\ pc = "cleanup_readdir" /\ status = "running"
  /\ IF TMP \notin dirs
       THEN /\ Reject("ENOENT readdir .tmp")
            /\ UNCHANGED <<pc, tasks>>
       ELSE IF Cardinality(readDir(<<".","/">> \o TMP)) = 0
         THEN /\ pc' = "cleanup_rmdir_tmp"
              /\ tasks' = {Task("rmdir_tmp", <<".","/">> \o TMP)}
              /\ UNCHANGED <<status, err>>
         ELSE /\ pc' = "done"
              /\ status' = "resolved"
              /\ UNCHANGED <<err, tasks>>
  /\ UNCHANGED <<files, dirs, globalScript, globalCss, gstate, pstate, pageInputs,
                 globalStyle, hasGlobalScript, styles, pages, output, finished>>

\* line 198: rmdir("./.tmp") without the recursive option rejects
\* (ENOTEMPTY) when the directory still has an entry
CleanupRmdirTmp(t) ==
  /\ t \in Batch("rmdir_tmp") /\ pc = "cleanup_rmdir_tmp"
  /\ tasks' = tasks \ {t}
  /\ IF \E e \in dirs \cup DOMAIN files : Under(Resolve(t.arg), e)
       THEN /\ Reject("ENOTEMPTY rmdir .tmp")
            /\ UNCHANGED <<dirs, pc, finished>>
       ELSE /\ dirs' = dirs \ {Resolve(t.arg)}
            /\ pc' = "done"
            /\ status' = "resolved"
            /\ finished' = finished \cup {t}
            /\ err' = err
  /\ UNCHANGED <<files, globalScript, globalCss, gstate, pstate, pageInputs,
                 globalStyle, hasGlobalScript, styles, pages, output>>

(* ---------------------------- specification ----------------------------- *)
Next ==
  \/ Start
  \/ \E t \in tasks : PrepareRmdir(t)
  \/ \E t \in tasks : PrepareMkdir(t)
  \/ PrepareStat
  \/ PrepareReadDir
  \/ \E t \in tasks : PrepareCopy(t)
  \/ GlobalRollup
  \/ GlobalRollupLegacy
  \/ \E t \in tasks : GlobalWrite(t)
  \/ PagesGlob
  \/ PagesRollup
  \/ \E t \in tasks : PageWrite(t)
  \/ AwaitCompiled
  \/ ReadGlobalStyle
  \/ ReadGlobalScript
  \/ \E t \in tasks : CopyGlobal(t)
  \/ ReadPages
  \/ \E pg \in pages : Render(pg)
  \/ \E t \in tasks : HtmlMkdir(t)
  \/ \E t \in tasks : HtmlWrite(t)
  \/ \E t \in tasks : CleanupRmdir(t)
  \/ CleanupReadDir
  \/ \E t \in tasks : CleanupRmdirTmp(t)

Spec == Init /\ [][Next]_vars

(* ------------------------------ properties ------------------------------ *)
Ops(S, op) == {t \in S : t.op = op}

\* where the documentation puts the page of a source file: its path below
\* src/pages with the extension replaced by .html, below dist
ExpectedHtml(input) ==
  DIST \o SubSeq(input, Len(SRC_PAGES) + 1, Len(input) - Len(EXT_TSX)) \o EXT_HTML

\* the files of the filesystem that hold a rendered document
RenderedFiles == {p \in DOMAIN files : files[p].page # <<>>}

\* the paths the run has written a rendered page to
HtmlWritten == {HtmlFile(OutputOf(t.arg).name) : t \in Ops(finished, "html_write")}

\* C1: after a build() that resolves, every page source found under src/pages
\* has exactly one .html file in dist, at its path relative to the pages root
\* with the extension replaced, and the run wrote no other page .html.
C1_OnePagePerSource ==
  status = "resolved" =>
    /\ HtmlWritten = {ExpectedHtml(i) : i \in Glob}
    /\ RenderedFiles = HtmlWritten
    /\ Cardinality(Ops(finished, "html_write")) = Cardinality(Glob)
    /\ \A i \in Glob : files[ExpectedHtml(i)].text = DOCTYPE

C1_Witness ==
  /\ status = "resolved"
  /\ {PageA, PageBA} \subseteq Glob
  /\ Cardinality(HtmlWritten) = 2

\* C2: when render() throws for a page, build() returns and no page .html is
\* written to dist in that run, also not for the pages rendered before.
C2_NoHtmlAfterRenderError ==
  status = "returned" =>
    /\ RenderedFiles = {}
    /\ Ops(finished, "html_write") = {}
    /\ Ops(tasks, "html_mkdir") \cup Ops(tasks, "html_write") = {}

C2_Witness ==
  /\ status = "returned"
  /\ output # {}

\* the copy of a static file the documentation promises in dist
StaticCopy(f) == DIST \o SubSeq(f, Len(SRC_PUBLIC) + 1, Len(f))

\* C3: with a directory src/public, every file below it (at any depth) is
\* copied, and after a build() that resolves it is in dist at the same
\* relative path with the content of its source.
C3_StaticFilesKept ==
  /\ err # "ENOENT copyFile"
  /\ (status = "resolved" /\ SRC_PUBLIC \in dirs) =>
       \A f \in readDir(SRC_PUBLIC) :
         /\ StaticCopy(f) \in DOMAIN files
         /\ files[StaticCopy(f)] = files[f]

\* C4 as stated: with a blank global script, after a run that resolved neither
\* dist/index.js nor dist/index.legacy.js exists, every page was rendered
\* with hasScripts = false, and the global stylesheet is the first stylesheet
\* of every rendered page.
C4_Original ==
  (Trim(globalScript) = <<>> /\ status = "resolved") =>
    /\ DIST_INDEX_JS \notin DOMAIN files
    /\ DIST_INDEX_LEGACY_JS \notin DOMAIN files
    /\ \A o \in output :
         /\ ~o.content.scripts
         /\ Len(o.content.styles) >= 1
         /\ o.content.styles[1] = globalStyle

\* C4 as amended: with a blank global script the run never copies a global
\* script to dist/index.js or dist/index.legacy.js (after the run such a file
\* is there only as the copy of a static file of that name), every page is
\* rendered with hasScripts = false, and a non-empty global stylesheet is the
\* first stylesheet of every rendered page, before the page's own.
C4_BlankGlobalScript ==
  Trim(globalScript) = <<>> =>
    /\ Ops(tasks \cup finished, "gcopy") = {}
    /\ status # "running" =>
         \A p \in {DIST_INDEX_JS, DIST_INDEX_LEGACY_JS} \cap DOMAIN files :
           \E f \in readDir(SRC_PUBLIC) : StaticCopy(f) = p /\ files[p] = files[f]
    /\ \A o \in output :
         /\ ~o.content.scripts
         /\ globalStyle # <<>> =>
              /\ o.content.styles[1] = globalStyle
              /\ \A st \in styles : st.name = o.name /\ st.content # <<>> =>
                   o.content.styles = <<globalStyle, st.content>>

C4_Witness ==
  /\ Trim(globalScript) = <<>>
  /\ status = "resolved"
  /\ globalStyle # <<>>
  /\ \E o \in output : Len(o.content.styles) = 2

\* C5: the promises of writeGlobal() and writePages() never reject; a failed
\* compilation or bundle write does not reject build().
C5_CompileNeverRejects ==
  /\ gstate # "rejected"
  /\ pstate # "rejected"
  /\ err \notin {"rollup global", "rollup legacy", "write global", "write page"}

\* C6: after a build() that resolves the staging directory does not exist;
\* it is deleted only after every page .html has been written.
C6_StagingGone ==
  /\ status = "resolved" =>
       /\ ~Exists(STAGING)
       /\ \A p \in dirs \cup DOMAIN files : ~Under(STAGING, p)
  /\ Ops(finished, "rmdir_staging") # {} =>
       /\ Ops(tasks, "html_mkdir") \cup Ops(tasks, "html_write") = {}
       /\ \A o \in output : Task("html_write", o.module) \in finished

C6_Witness ==
  /\ status = "resolved"
  /\ Cardinality(Ops(finished, "html_write")) = 2
  /\ Ops(finished, "rmdir_staging") # {}

\* C7: when src/public does not exist prepare() completes without error and
\* build() goes on to compile.
C7_PublicOptional ==
  ~Exists(SRC_PUBLIC) => ~(pc = "prepare_stat" /\ status = "rejected")

PrepareOps == {"rmdir", "mkdir", "copy"}
CompileOps == {"gwrite", "pwrite"}
HtmlOps == {"html_mkdir", "html_write"}

CompileStarted == gstate # "idle" \/ pstate # "idle"
CompileFinished ==
  /\ gstate = "resolved" /\ pstate = "resolved"
  /\ {t \in tasks : t.op \in CompileOps} = {}
RenderStarted == pc = "render" \/ Ops(finished, "render") # {}
\* every page that was compiled into the staging area has been rendered
AllRendered ==
  /\ pstate = "resolved"
  /\ \A i \in pageInputs :
       Task("pwrite", i) \in finished => Task("render", PageEntryFile(i)) \in finished

\* the first two parts of C8: prepare is complete before any compilation
\* starts, and no page is rendered before writeGlobal and writePages finished
StagesOrdered ==
  /\ CompileStarted => {t \in tasks : t.op \in PrepareOps} = {}
  /\ CompileStarted => Ops(finished, "rmdir") # {} /\ Ops(finished, "mkdir") # {}
  /\ RenderStarted => CompileFinished

C9_TmpKeptWhenNotEmpty ==
  (\E e \in dirs \cup DOMAIN files : Under(TMP, e)) =>
    /\ Ops(tasks, "rmdir_tmp") = {}
    /\ err # "ENOTEMPTY rmdir .tmp"

\* the paths an operation in flight writes
WriteTargets(t) ==
  IF t.op = "gwrite" THEN DOMAIN GlobalWriteFiles(t.arg)
  ELSE IF t.op = "pwrite" THEN DOMAIN PageWriteFiles(t.arg)
  ELSE IF t.op \in HtmlOps THEN {HtmlFile(OutputOf(t.arg).name)}
  ELSE {}

\* C10: operations in flight at the same time never write the same path:
\* the bundle writes of writeGlobal and writePages go to pairwise disjoint
\* paths below the staging directory, the page .html writes to pairwise
\* distinct paths below dist.
C10_DisjointWrites ==
  /\ \A t1, t2 \in tasks : t1 # t2 => WriteTargets(t1) \cap WriteTargets(t2) = {}
  /\ \A t \in tasks : \A p \in WriteTargets(t) :
       IF t.op \in CompileOps THEN Under(STAGING, p) ELSE Under(DIST, p)

C10_Witness ==
  /\ Cardinality(Ops(tasks, "pwrite")) = 2
  /\ Cardinality(Ops(tasks, "gwrite")) = 2
  /\ \E t \in Ops(tasks, "pwrite") : Cardinality(WriteTargets(t)) = 2

====
